---- MODULE Spec2Model ----
(***************************************************************************)
(* A model of WebSocketService (src/src/services/websocket.ts): the        *)
(* connection life cycle, the timers, the subscription registry and the    *)
(* message router, together with the browser WebSocket objects the service *)
(* drives.  Every handler of the service is one operator on a record of    *)
(* the service's fields, so that a handler that calls another one is the   *)
(* composition of the two; every action of the model is one task of the    *)
(* JavaScript event loop (a call of the public API, a transport event, a   *)
(* timer).  Time stamps (Date.now()) and the endpoint URL are not          *)
(* modelled: no handler branches on them.  The WebSocket constructor is    *)
(* taken not to throw (the catch block of connect() is for an endpoint URL *)
(* that is no URL).  generateSubscriptionId() builds its id from the clock  *)
(* and Math.random(): the budget of a specification says how many times    *)
(* the two may repeat an id they produced before.                          *)
(* Callbacks (status listeners, subscription callbacks) leave the service  *)
(* alone, except in the specification whose budget lets them call          *)
(* subscribe() and unsubscribe() from inside the running handler.          *)
(* The onError handler of setupEventHandlers never runs: connect()         *)
(* replaces ws.onerror (and ws.onopen) before any event can be dispatched. *)
(***************************************************************************)
EXTENDS Integers, Sequences, FiniteSets, TLC

\* ------------------------------------------------------------------ bounds
MaxTransports == 2     \* WebSocket objects created in one run
MaxSubs       == 2     \* subscribe() calls in one run
MaxMsgs       == 2     \* inbound frames in one run
MaxHeartbeats == 1     \* heartbeat frames sent on one transport
MaxListeners  == 1     \* distinct status listeners
Few           == 1     \* the budget of what a specification does not dwell on
DelayInputs   == 12    \* starting delays of the backoff computation, 250 ms apart

\* ------------------------------------------------------- program constants
NoHandle             == 0       \* null (ws, reconnectTimer, heartbeatTimer)
InitialReconnectDelay == 1000
maxReconnectDelay    == 30000
maxReconnectAttempts == 10
ManualCloseCode      == 1000
GoingAwayCode        == 1001
AbnormalCloseCode    == 1006

Min(a, b) == IF a < b THEN a ELSE b

\* ------------------------------------------------------ payloads, filters
Fields    == {"address", "chainId", "token", "hash"}
Undefined == "undefined"
\* field values are written as strings: chainId is a number, in decimal ("0",
\* "137"); the other fields are strings ("", "0xabc")

\* JavaScript truthiness of a filter field: undefined, 0 and "" are falsy
Truthy(field, v) ==
    IF field = "chainId" THEN v \notin {Undefined, "0"} ELSE v \notin {Undefined, ""}

Rec(address, chainId, token, hash) ==
    [address |-> address, chainId |-> chainId, token |-> token, hash |-> hash]

\* a payload: an object with some of the four fields, or anything else
\* (null, a number, a string)
ObjPayload(f) == [obj |-> TRUE, f |-> f]
NonObjPayload == [obj |-> FALSE, f |-> Rec(Undefined, Undefined, Undefined, Undefined)]

\* a filter argument of subscribe(): undefined, or an object
NoFilter   == [present |-> FALSE, f |-> Rec(Undefined, Undefined, Undefined, Undefined)]
Filter(f)  == [present |-> TRUE, f |-> f]

MessageTypes == {"transaction_update", "network_status"}

\* the subscriptions the callers of the model register
SubChoices ==
    { [type |-> "transaction_update", filter |-> NoFilter, cb |-> "throw"],
      [type |-> "transaction_update",
       filter |-> Filter(Rec(Undefined, Undefined, Undefined, "0xabc")), cb |-> "ok"],
      [type |-> "network_status",
       filter |-> Filter(Rec(Undefined, "0", Undefined, Undefined)), cb |-> "ok"]
      }

\* subscriptions whose callback calls subscribe() or unsubscribe()
InsideChoices ==
    { [type |-> "network_status", filter |-> NoFilter, cb |-> "subscribe"],
      [type |-> "network_status", filter |-> NoFilter, cb |-> "unsubscribe"] }

\* the payloads the feed pushes
PayloadChoices ==
    { ObjPayload(Rec(Undefined, Undefined, Undefined, "0xabc")),
      ObjPayload(Rec(Undefined, "137", Undefined, Undefined)),
      NonObjPayload }

\* the frames the feed pushes: unparsable text, JSON without a "res" array,
\* or {"res":[id, messageType, messageData]}
Wires ==
    { [shape |-> "garbage", type |-> "transaction_update", payload |-> NonObjPayload],
      [shape |-> "nores", type |-> "transaction_update", payload |-> NonObjPayload] }
    \cup { [shape |-> "res", type |-> ty, payload |-> p] :
              ty \in MessageTypes, p \in PayloadChoices }

\* ------------------------------------------------------------------ state
VARIABLES
    status,           \* this.status
    ws,               \* this.ws: index into tr, or NoHandle
    connectionState,  \* this.connectionState: [set, reconnectCount]
    reconnectTimer,   \* this.reconnectTimer: a timer id, or NoHandle
    heartbeatTimer,   \* this.heartbeatTimer: a timer id, or NoHandle
    reconnectDelay,   \* this.reconnectDelay
    subscriptions,    \* this.subscriptions: the Map, in insertion order
    listeners,        \* this.listeners.get('status')
    tr,               \* the WebSocket objects created so far
    timers,           \* the timers that are live in the runtime
    timerSeq,         \* timer ids handed out so far
    sent,             \* frames send() of the transport this.ws accepted, in order
                      \* (forgotten when this.ws is reassigned: nothing reads them)
    notified,         \* what the running task told the status listeners, in order
    subSeq,           \* calls of subscribe() so far
    returned,         \* the ids subscribe() returned so far
    msgSeq,           \* inbound frames received so far
    delivered,        \* callback invocations, in order: [sub, msg]
    closeDue,         \* transport whose close event ends the running task
    reaction,         \* the caller's rejection handler may run within the task
    manual,           \* disconnect() was called and connect() not since
    attempts,         \* runs of the reconnection timer's callback since the last open
    budget,           \* how many transports, subscriptions, frames and repeated
                      \* ids the run may use
    last              \* the handler that ran last

vars == <<status, ws, connectionState, reconnectTimer, heartbeatTimer,
          reconnectDelay, subscriptions, listeners, tr, timers, timerSeq, sent,
          notified, subSeq, msgSeq, delivered, closeDue, reaction, manual,
          attempts, budget, returned, last>>

NullConnection == [set |-> FALSE, reconnectCount |-> 0]

\* the service and the runtime objects it owns, as one record
Svc ==
    [status |-> status, ws |-> ws, connectionState |-> connectionState,
     reconnectTimer |-> reconnectTimer, heartbeatTimer |-> heartbeatTimer,
     reconnectDelay |-> reconnectDelay, subscriptions |-> subscriptions,
     listeners |-> listeners, tr |-> tr, timers |-> timers,
     timerSeq |-> timerSeq, sent |-> sent, notified |-> <<>>, inside |-> <<>>]

Install(s) ==
    /\ status' = s.status
    /\ ws' = s.ws
    /\ connectionState' = s.connectionState
    /\ reconnectTimer' = s.reconnectTimer
    /\ heartbeatTimer' = s.heartbeatTimer
    /\ reconnectDelay' = s.reconnectDelay
    /\ subscriptions' = s.subscriptions
    /\ listeners' = s.listeners
    /\ tr' = s.tr
    /\ timers' = s.timers
    /\ timerSeq' = s.timerSeq
    /\ sent' = s.sent
    /\ notified' = s.notified

\* ------------------------------------------------------ the WebSocket objects
NewTransport(byTimer) ==
    [rs |-> "CONNECTING",      \* readyState
     opened |-> FALSE,         \* the connection was established at some time
     closer |-> "none",        \* who started closing it: none, client, server
     promise |-> "pending",    \* the promise connect() returned for it
     timeout |-> "armed",      \* the 10 s timer connect() set for it
     byTimer |-> byTimer]      \* connect() was called by the reconnection timer

Transports == 1..Len(tr)

\* a close() that leaves readyState as it is
wsCloseKeepsState(s, t) == s

\* WebSocket.close(): starts the closing handshake of a socket that is
\* connecting or open, and does nothing to one that is closing or closed
wsClose(s, t) ==
    IF s.tr[t].rs \in {"CONNECTING", "OPEN"}
    THEN [s EXCEPT !.tr[t].rs = "CLOSING", !.tr[t].closer = "client"]
    ELSE s

\* ---------------------------------------------------------------- helpers
isConnected(s) == s.ws # NoHandle /\ s.tr[s.ws].rs = "OPEN"

sendMessage(s, m) ==
    IF ~isConnected(s) \/ s.ws = NoHandle
    THEN s
    ELSE [s EXCEPT !.sent = Append(@, m)]

Announce(sub) == [kind |-> "subscription", id |-> sub.id]

HasSub(s, id) == \E i \in 1..Len(s.subscriptions) : s.subscriptions[i].id = id

\* Map.set: a key the Map holds keeps its place and gets the new value
MapSet(subs, sub) ==
    IF \E i \in 1..Len(subs) : subs[i].id = sub.id
    THEN [i \in 1..Len(subs) |-> IF subs[i].id = sub.id THEN sub ELSE subs[i]]
    ELSE Append(subs, sub)

subscribe(s, id, c) ==
    LET sub == [id |-> id, type |-> c.type, filter |-> c.filter, cb |-> c.cb]
        s1  == [s EXCEPT !.subscriptions = MapSet(@, sub)]
    IN  IF isConnected(s1) THEN sendMessage(s1, Announce(sub)) ELSE s1

\* subscribe() called by a callback of the running task (a status listener
\* or a subscription callback), as long as the run may subscribe: the ids of
\* the calls made inside the task are kept in s.inside
InsideSub(type) == [type |-> type, filter |-> NoFilter, cb |-> "ok"]

subscribeInside(s, type) ==
    IF budget.inside > 0 /\ subSeq + Len(s.inside) < budget.subs
    THEN LET id == subSeq + Len(s.inside) + 1
         IN  subscribe([s EXCEPT !.inside = Append(@, id)], id, InsideSub(type))
    ELSE s

\* callback(this.status) of one listener: in the runs that have callbacks
\* act on the service, a listener told "connected" subscribes
StatusCallback(s, l) ==
    LET s1 == [s EXCEPT !.notified = Append(@, [listener |-> l, status |-> s.status])]
    IN  IF s.status = "connected" THEN subscribeInside(s1, "network_status") ELSE s1

RECURSIVE NotifyEach(_, _)
NotifyEach(s, ls) ==
    IF ls = <<>> THEN s
    ELSE NotifyEach(StatusCallback(s, Head(ls)), Tail(ls))

\* a notification that invokes nobody
notifyStatusListenersSilent(s) == s

notifyStatusListeners(s) == NotifyEach(s, s.listeners)

\* a replay that was forgotten
resubscribeAllForgotten(s) == s

RECURSIVE ResubscribeFrom(_, _)
ResubscribeFrom(s, subs) ==
    IF subs = <<>> THEN s
    ELSE ResubscribeFrom(sendMessage(s, Announce(Head(subs))), Tail(subs))

resubscribeAll(s) == ResubscribeFrom(s, s.subscriptions)

\* a teardown that also empties the registry
clearTimersAndRegistry(s) ==
    [s EXCEPT !.timers = {x \in @ : x.id \notin {s.reconnectTimer, s.heartbeatTimer}},
              !.reconnectTimer = NoHandle,
              !.heartbeatTimer = NoHandle,
              !.subscriptions = <<>>]

clearTimers(s) ==
    LET s1 == IF s.reconnectTimer # NoHandle
              THEN [s EXCEPT !.timers = {x \in @ : x.id # s.reconnectTimer},
                             !.reconnectTimer = NoHandle]
              ELSE s
    IN  IF s1.heartbeatTimer # NoHandle
        THEN [s1 EXCEPT !.timers = {x \in @ : x.id # s1.heartbeatTimer},
                        !.heartbeatTimer = NoHandle]
        ELSE s1

HeartbeatInterval == 30000

startHeartbeat(s) ==
    [s EXCEPT !.timerSeq = @ + 1,
              !.timers = @ \cup {[id |-> s.timerSeq + 1, kind |-> "heartbeat",
                                  delay |-> HeartbeatInterval]},
              !.heartbeatTimer = s.timerSeq + 1]

\* the guard without its test of connectionState
ReconnectGivenUpByCountOnly(s) ==
    s.connectionState.reconnectCount >= maxReconnectAttempts

\* the guard of scheduleReconnect: no attempt is scheduled
ReconnectGivenUp(s) ==
    ~s.connectionState.set
    \/ s.connectionState.reconnectCount >= maxReconnectAttempts

scheduleReconnect(s) ==
    IF ReconnectGivenUp(s)
    THEN notifyStatusListeners([s EXCEPT !.status = "error"])
    ELSE LET s1 == notifyStatusListeners([s EXCEPT !.status = "reconnecting"])
         IN  [s1 EXCEPT !.timerSeq = @ + 1,
                        !.timers = @ \cup {[id |-> s1.timerSeq + 1, kind |-> "reconnect",
                                            delay |-> s1.reconnectDelay]},
                        !.reconnectTimer = s1.timerSeq + 1]

onConnected(s) ==
    LET s1 == [s EXCEPT !.status = "connected",
                        !.connectionState = [set |-> TRUE, reconnectCount |-> 0],
                        !.reconnectDelay = InitialReconnectDelay]
    IN  resubscribeAll(notifyStatusListeners(startHeartbeat(s1)))

onDisconnected(s, code) ==
    LET s1 == [s EXCEPT !.status = "disconnected",
                        !.connectionState = NullConnection]
        s2 == notifyStatusListeners(clearTimers(s1))
    IN  IF code # ManualCloseCode THEN scheduleReconnect(s2) ELSE s2

\* the first test of connect()
AlreadyConnecting(s) ==
    s.ws # NoHandle /\ s.tr[s.ws].rs \in {"CONNECTING", "OPEN"}

connect(s, byTimer) ==
    IF AlreadyConnecting(s)
    THEN s
    ELSE LET s1 == notifyStatusListeners([s EXCEPT !.status = "connecting"])
         IN  [s1 EXCEPT !.tr = Append(@, NewTransport(byTimer)),
                        !.ws = Len(s1.tr) + 1,
                        !.sent = <<>>]

disconnect(s) ==
    LET s1 == clearTimers(s)
        s2 == IF s1.ws # NoHandle
              THEN [wsClose(s1, s1.ws) EXCEPT !.ws = NoHandle, !.sent = <<>>]
              ELSE s1
    IN  notifyStatusListeners([s2 EXCEPT !.status = "disconnected",
                                         !.connectionState = NullConnection])

\* a backoff without its ceiling
NextDelayNoCeiling(d) == d * 2

\* the exponential backoff of the reconnection timer's catch handler
NextDelay(d) == Min(d * 2, maxReconnectDelay)

\* connect().catch(...) of the reconnection timer
reconnectFailed(s) ==
    scheduleReconnect([s EXCEPT !.reconnectDelay = NextDelay(@)])

\* the callback of the reconnection timer
reconnectAttempt(s) ==
    LET s1 == IF s.connectionState.set
              THEN [s EXCEPT !.connectionState.reconnectCount = @ + 1]
              ELSE s
    IN  connect(s1, TRUE)

\* the callback of the heartbeat timer
heartbeatTick(s) ==
    IF isConnected(s) THEN sendMessage(s, [kind |-> "heartbeat", id |-> 0]) ELSE s

\* ------------------------------------------------- registry and router
\* an unsubscribe that tells the server whatever the registry holds
unsubscribeAlwaysTells(s, id) ==
    LET s1 == [s EXCEPT !.subscriptions = SelectSeq(@, LAMBDA x : x.id # id)]
    IN  IF isConnected(s1)
        THEN sendMessage(s1, [kind |-> "unsubscription", id |-> id])
        ELSE s1

unsubscribe(s, id) ==
    IF HasSub(s, id)
    THEN LET s1 == [s EXCEPT !.subscriptions = SelectSeq(@, LAMBDA x : x.id # id)]
         IN  IF isConnected(s1)
             THEN sendMessage(s1, [kind |-> "unsubscription", id |-> id])
             ELSE s1
    ELSE s

matchesFilter(payload, filter) ==
    IF ~payload.obj
    THEN TRUE
    ELSE \A fld \in Fields :
            ~(Truthy(fld, filter.f[fld]) /\ payload.f[fld] # filter.f[fld])

\* the test routeMessage makes before it invokes the callback of sub
Routed(sub, msg) ==
    /\ sub.type = msg.type
    /\ ~(sub.filter.present /\ ~matchesFilter(msg.payload, sub.filter))

\* what the callback of sub does when it is invoked: nothing to the service,
\* or, in the runs that have callbacks act on the service, a subscribe() of
\* its own type or an unsubscribe() of the newest subscription
Callback(s, sub) ==
    IF sub.cb = "subscribe" THEN subscribeInside(s, sub.type)
    ELSE IF sub.cb = "unsubscribe"
         THEN unsubscribe(s, s.subscriptions[Len(s.subscriptions)].id)
         ELSE s

\* how many of the first i entries of the Map a callback deleted
Gone(before, after, i) ==
    Cardinality({j \in 1..i : \A k \in 1..Len(after) : after[k].id # before[j].id})

\* subscriptions.forEach of routeMessage, from the i-th entry of the live Map
\* (an entry added during the loop is visited, an entry deleted before its
\* turn is not): the callbacks invoked, in order, the service as they left
\* it, and whether an exception left the loop (acc.threw)
\* the try/catch around the callback keeps a throwing callback inside the loop
RECURSIVE RouteFrom(_, _, _)
RouteFrom(i, msg, acc) ==
    IF i > Len(acc.svc.subscriptions) THEN acc
    ELSE LET sub == acc.svc.subscriptions[i]
             s1  == Callback(acc.svc, sub)
         IN  IF Routed(sub, msg)
             THEN RouteFrom(i + 1 - Gone(acc.svc.subscriptions, s1.subscriptions, i), msg,
                            [acc EXCEPT !.svc = s1, !.invoked = Append(@, sub.id)])
             ELSE RouteFrom(i + 1, msg, acc)

\* a loop without the try/catch: the first throwing callback ends it
RECURSIVE RouteFromNoCatch(_, _, _)
RouteFromNoCatch(i, msg, acc) ==
    IF i > Len(acc.svc.subscriptions) THEN acc
    ELSE LET sub  == acc.svc.subscriptions[i]
             s1   == Callback(acc.svc, sub)
             acc1 == [acc EXCEPT !.svc = s1, !.invoked = Append(@, sub.id)]
         IN  IF Routed(sub, msg)
             THEN IF sub.cb = "throw"
                  THEN [acc1 EXCEPT !.threw = TRUE]
                  ELSE RouteFromNoCatch(i + 1 - Gone(acc.svc.subscriptions, s1.subscriptions, i),
                                        msg, acc1)
             ELSE RouteFromNoCatch(i + 1, msg, acc)

NothingRouted(s) == [svc |-> s, invoked |-> <<>>, threw |-> FALSE]

routeMessageNoCatch(s, msg) == RouteFromNoCatch(1, msg, NothingRouted(s))

routeMessage(s, msg) == RouteFrom(1, msg, NothingRouted(s))

\* a message handler that is attached twice
onMessageTwice(s, w) ==
    IF w.shape = "res"
    THEN LET r == routeMessage(s, w)
         IN  [r EXCEPT !.invoked = r.invoked \o r.invoked]
    ELSE NothingRouted(s)

\* onMessage and handleClearNodeMessage: JSON.parse, the "res" test, the router
onMessage(s, w) ==
    IF w.shape = "res" THEN routeMessage(s, w) ELSE NothingRouted(s)

RECURSIVE Deliveries(_, _)
Deliveries(ids, n) ==
    IF ids = <<>> THEN <<>>
    ELSE <<[sub |-> Head(ids), msg |-> n]>> \o Deliveries(Tail(ids), n)

\* ---------------------------------------------------------------- actions
NoWire == [shape |-> "none", type |-> "transaction_update", payload |-> NonObjPayload]

Did(op, t, code, hit) ==
    [op |-> op, t |-> t, code |-> code, hit |-> hit, wire |-> NoWire,
     invoked |-> <<>>, threw |-> FALSE]

\* a call of the public API runs in a task of its own, or in the handler the
\* caller attached to the promise of connect() (a microtask of the running task)
UserTurn == closeDue = NoHandle \/ reaction

HeartbeatsSent == Cardinality({i \in 1..Len(sent) : sent[i].kind = "heartbeat"})

InitFrom(b, delay) ==
    /\ budget = b
    /\ attempts = 0
    /\ status = "disconnected"
    /\ ws = NoHandle
    /\ connectionState = NullConnection
    /\ reconnectTimer = NoHandle
    /\ heartbeatTimer = NoHandle
    /\ reconnectDelay = delay
    /\ subscriptions = <<>>
    /\ listeners = <<>>
    /\ tr = <<>>
    /\ timers = {}
    /\ timerSeq = 0
    /\ sent = <<>>
    /\ notified = <<>>
    /\ subSeq = 0
    /\ returned = {}
    /\ msgSeq = 0
    /\ delivered = <<>>
    /\ closeDue = NoHandle
    /\ reaction = FALSE
    /\ manual = FALSE
    /\ last = Did("init", delay, 0, FALSE)

InitWith(b) == InitFrom(b, InitialReconnectDelay)

Connect ==
    /\ UserTurn
    /\ AlreadyConnecting(Svc) \/ Len(tr) < budget.transports
    /\ Install(connect(Svc, FALSE))
    /\ manual' = FALSE
    /\ last' = Did("connect", ws, 0, AlreadyConnecting(Svc))
    /\ UNCHANGED <<subSeq, msgSeq, delivered, closeDue, reaction, attempts, budget, returned>>

Disconnect ==
    /\ UserTurn
    /\ Install(disconnect(Svc))
    /\ manual' = TRUE
    /\ last' = Did("disconnect", ws, 0, ws # NoHandle)
    /\ UNCHANGED <<subSeq, msgSeq, delivered, closeDue, reaction, attempts, budget, returned>>

\* the ids generateSubscriptionId() can return: one that was never returned,
\* or, while the run's budget of repeats lasts, one returned before (the
\* same millisecond and the same digits of Math.random())
generateSubscriptionId ==
    {subSeq + 1} \cup (IF subSeq - Cardinality(returned) < budget.repeats
                       THEN returned ELSE {})

Subscribe(c, id) ==
    /\ UserTurn
    /\ subSeq < budget.subs
    /\ id \in generateSubscriptionId
    /\ c \in InsideChoices => budget.inside > 0
    /\ Install(subscribe(Svc, id, c))
    /\ subSeq' = subSeq + 1
    /\ returned' = returned \cup {id}
    /\ last' = Did("subscribe", id, 0, isConnected(Svc))
    /\ UNCHANGED <<msgSeq, delivered, closeDue, reaction, manual, attempts, budget>>

Unsubscribe(id) ==
    /\ UserTurn
    /\ Install(unsubscribe(Svc, id))
    /\ last' = Did("unsubscribe", id, 0, HasSub(Svc, id))
    /\ UNCHANGED <<subSeq, msgSeq, delivered, closeDue, reaction, manual, attempts, budget, returned>>

\* onStatusChange(callback): Set.add
AddListener(l) ==
    /\ UserTurn
    /\ listeners' = IF \E i \in 1..Len(listeners) : listeners[i] = l
                    THEN listeners ELSE Append(listeners, l)
    /\ last' = Did("onStatusChange", l, 0, TRUE)
    /\ notified' = <<>>
    /\ UNCHANGED <<status, ws, connectionState, reconnectTimer, heartbeatTimer,
                   reconnectDelay, subscriptions, tr, timers, timerSeq, sent,
                   subSeq, msgSeq, delivered, closeDue, reaction, manual, attempts, budget, returned>>

\* the function onStatusChange returned: Set.delete
RemoveListener(l) ==
    /\ UserTurn
    /\ \E i \in 1..Len(listeners) : listeners[i] = l
    /\ listeners' = SelectSeq(listeners, LAMBDA x : x # l)
    /\ last' = Did("removeListener", l, 0, TRUE)
    /\ notified' = <<>>
    /\ UNCHANGED <<status, ws, connectionState, reconnectTimer, heartbeatTimer,
                   reconnectDelay, subscriptions, tr, timers, timerSeq, sent,
                   subSeq, msgSeq, delivered, closeDue, reaction, manual, attempts, budget, returned>>

\* the open event of transport t: the onopen handler connect() installed
TransportOpen(t) ==
    /\ closeDue = NoHandle
    /\ tr[t].rs = "CONNECTING"
    /\ LET s0 == [Svc EXCEPT !.tr[t].rs = "OPEN",
                             !.tr[t].opened = TRUE,
                             !.tr[t].timeout = IF @ = "armed" THEN "cleared" ELSE @]
           s1 == onConnected(s0)
       IN  /\ Install([s1 EXCEPT !.tr[t].promise = IF @ = "pending" THEN "resolved" ELSE @])
           /\ subSeq' = subSeq + Len(s1.inside)
           /\ returned' = returned \cup {s1.inside[i] : i \in 1..Len(s1.inside)}
    /\ attempts' = 0
    /\ last' = Did("open", t, 0, t = ws)
    /\ UNCHANGED <<msgSeq, delivered, closeDue, reaction, manual, budget>>

\* the server starts the closing handshake of an open transport: readyState
\* is CLOSING until the close event
ServerClosing(t) ==
    /\ closeDue = NoHandle
    /\ tr[t].rs = "OPEN"
    /\ tr' = [tr EXCEPT ![t].rs = "CLOSING", ![t].closer = "server"]
    /\ last' = Did("closing", t, 0, t = ws)
    /\ notified' = <<>>
    /\ UNCHANGED <<status, ws, connectionState, reconnectTimer, heartbeatTimer,
                   reconnectDelay, subscriptions, listeners, timers, timerSeq, sent,
                   subSeq, msgSeq, delivered, closeDue, reaction, manual, attempts, budget, returned>>

\* transport t fails before it was established: readyState CLOSED, then the
\* error event (the onerror handler connect() installed), then the microtasks
\* (the handler of the rejected promise); the close event ends the task
TransportError(t) ==
    /\ closeDue = NoHandle
    /\ tr[t].rs = "CONNECTING" \/ (tr[t].rs = "CLOSING" /\ ~tr[t].opened)
    /\ LET pending == tr[t].promise = "pending"
           s0 == [Svc EXCEPT !.tr[t].rs = "CLOSED",
                             !.tr[t].timeout = IF @ = "armed" THEN "cleared" ELSE @,
                             !.tr[t].promise = IF pending THEN "rejected" ELSE @]
       IN  /\ Install(IF pending /\ tr[t].byTimer THEN reconnectFailed(s0) ELSE s0)
           /\ reaction' = (pending /\ ~tr[t].byTimer)
    /\ closeDue' = t
    /\ last' = Did("error", t, 0, t = ws)
    /\ UNCHANGED <<subSeq, msgSeq, delivered, manual, attempts, budget, returned>>

\* the close codes a close event of transport t may carry
CloseCodes(t) ==
    IF closeDue = t THEN {AbnormalCloseCode}
    ELSE IF closeDue # NoHandle THEN {}
    ELSE IF tr[t].rs = "OPEN" THEN {AbnormalCloseCode}
    ELSE IF tr[t].rs = "CLOSING" /\ tr[t].opened
         THEN IF tr[t].closer = "client"
              THEN {ManualCloseCode, AbnormalCloseCode}
              ELSE {ManualCloseCode, GoingAwayCode, AbnormalCloseCode}
    ELSE {}

\* the close event of transport t: the onclose handler of setupEventHandlers
TransportClose(t, code) ==
    /\ code \in CloseCodes(t)
    /\ Install(onDisconnected([Svc EXCEPT !.tr[t].rs = "CLOSED"], code))
    /\ closeDue' = NoHandle
    /\ reaction' = FALSE
    /\ last' = Did("close", t, code, t = ws)
    /\ UNCHANGED <<subSeq, msgSeq, delivered, manual, attempts, budget, returned>>

\* the 10 s timer of connect() fires: the promise is rejected
ConnectTimeout(t) ==
    /\ closeDue = NoHandle
    /\ tr[t].timeout = "armed"
    /\ LET s0 == [Svc EXCEPT !.tr[t].timeout = "fired", !.tr[t].promise = "rejected"]
       IN  Install(IF tr[t].byTimer THEN reconnectFailed(s0) ELSE s0)
    /\ last' = Did("timeout", t, 0, t = ws)
    /\ UNCHANGED <<subSeq, msgSeq, delivered, closeDue, reaction, manual, attempts, budget, returned>>

\* a message event of transport t: the onmessage handler
Message(t, w) ==
    /\ closeDue = NoHandle
    /\ tr[t].rs = "OPEN"
    /\ msgSeq < budget.msgs
    /\ msgSeq' = msgSeq + 1
    /\ LET r == onMessage(Svc, w)
       IN  /\ delivered' = delivered \o Deliveries(r.invoked, msgSeq + 1)
           /\ last' = [Did("message", t, 0, t = ws) EXCEPT
                          !.wire = w, !.invoked = r.invoked, !.threw = r.threw]
           /\ Install(r.svc)
           /\ subSeq' = subSeq + Len(r.svc.inside)
           /\ returned' = returned \cup {r.svc.inside[i] : i \in 1..Len(r.svc.inside)}
    /\ UNCHANGED <<closeDue, reaction, manual, attempts, budget>>

\* a timer of the runtime fires: the callback of the reconnection timer
\* (a timeout, gone once it fired) or of the heartbeat timer (an interval)
TimerFire(h) ==
    /\ closeDue = NoHandle
    /\ h \in timers
    /\ IF h.kind = "reconnect"
       THEN /\ AlreadyConnecting(Svc) \/ Len(tr) < budget.transports
            /\ Install(reconnectAttempt([Svc EXCEPT !.timers = @ \ {h}]))
       ELSE /\ ~isConnected(Svc) \/ HeartbeatsSent < MaxHeartbeats
            /\ Install(heartbeatTick(Svc))
    /\ attempts' = IF h.kind = "reconnect" THEN attempts + 1 ELSE attempts
    /\ last' = Did(h.kind, h.id, 0, isConnected(Svc))
    /\ UNCHANGED <<subSeq, msgSeq, delivered, closeDue, reaction, manual, budget, returned>>

Next ==
    \/ Connect
    \/ Disconnect
    \/ \E c \in SubChoices \cup InsideChoices, id \in 1..MaxSubs : Subscribe(c, id)
    \/ \E id \in 1..MaxSubs : Unsubscribe(id)
    \/ \E l \in 1..MaxListeners : AddListener(l)
    \/ \E l \in 1..MaxListeners : RemoveListener(l)
    \/ \E t \in Transports : TransportOpen(t)
    \/ \E t \in Transports : ServerClosing(t)
    \/ \E t \in Transports : TransportError(t)
    \/ \E t \in Transports, code \in {ManualCloseCode, GoingAwayCode, AbnormalCloseCode} :
          TransportClose(t, code)
    \/ \E t \in Transports : ConnectTimeout(t)
    \/ \E t \in Transports, w \in Wires : Message(t, w)
    \/ \E h \in timers : TimerFire(h)

\* the connection life cycle: several transports, few subscriptions and frames
LifeBudget == [transports |-> MaxTransports, subs |-> Few, msgs |-> Few, repeats |-> 0, inside |-> 0]
Init == InitWith(LifeBudget)
Spec == Init /\ [][Next]_vars

\* the registry and the router: several subscriptions and frames, few transports
RouterBudget == [transports |-> Few, subs |-> MaxSubs, msgs |-> MaxMsgs, repeats |-> 0, inside |-> 0]
InitRouter == InitWith(RouterBudget)
SpecRouter == InitRouter /\ [][Next]_vars

\* the id generator: several subscriptions, and an id that may come twice
IdBudget == [transports |-> Few, subs |-> MaxSubs, msgs |-> Few, repeats |-> Few,
             inside |-> 0]
InitIds == InitWith(IdBudget)
SpecIds == InitIds /\ [][Next]_vars

\* callbacks that act on the service: a status listener that subscribes when
\* told "connected", subscription callbacks that subscribe and unsubscribe
InsideBudget == [transports |-> Few, subs |-> MaxSubs, msgs |-> Few, repeats |-> 0,
                 inside |-> Few]
InitInside == InitWith(InsideBudget)
SpecInside == InitInside /\ [][Next]_vars

\* the backoff computation alone: the delay of the next attempt after each
\* failed attempt, from a range of starting delays (last.t keeps the start)
BackoffStep ==
    /\ attempts + 1 < maxReconnectAttempts
    /\ reconnectDelay' = NextDelay(reconnectDelay)
    /\ attempts' = attempts + 1
    /\ last' = Did("backoff", last.t, 0, FALSE)
    /\ UNCHANGED <<status, ws, connectionState, reconnectTimer, heartbeatTimer,
                   subscriptions, listeners, tr, timers, timerSeq, sent, notified,
                   subSeq, msgSeq, delivered, closeDue, reaction, manual, budget, returned>>

InitBackoff == \E k \in 1..DelayInputs : InitFrom(LifeBudget, 250 * k)
NextBackoff == BackoffStep
SpecBackoff == InitBackoff /\ [][NextBackoff]_vars

\* ------------------------------------------------------------------ claims
ReconnectTimers(ts) == {x \in ts : x.kind = "reconnect"}

\* C1: a close with a code other than 1000 while the state is connected makes
\* the state reconnecting and arms exactly one reconnection timer
C1_AbnormalCloseSchedulesReconnect ==
    [][(last'.op = "close" /\ last'.code # ManualCloseCode /\ status = "connected")
          => /\ status' = "reconnecting"
             /\ reconnectTimer' # NoHandle
             /\ Cardinality(ReconnectTimers(timers')) = 1]_vars

\* C2: from disconnect() until the next connect() no reconnection timer is
\* pending (so none fires) and no transport is created
C2_ManualDisconnectNeverReconnects ==
    [][/\ manual' => (ReconnectTimers(timers') = {} /\ reconnectTimer' = NoHandle)
       /\ (manual /\ manual') => (Len(tr') = Len(tr) /\ last'.op # "reconnect")]_vars

\* C2's case: after disconnect() the abandoned transport reported an
\* abnormal close, and no connect() was called since
C2_Witness ==
    /\ manual
    /\ last.op = "close"
    /\ last.code = AbnormalCloseCode

\* C3: connect() called while the state is connecting or connected creates
\* no transport, changes no state and sends nothing
C3_ConnectIdempotent ==
    [][(last'.op = "connect" /\ status \in {"connecting", "connected"})
          => /\ tr' = tr
             /\ ws' = ws
             /\ status' = status
             /\ sent' = sent
             /\ notified' = <<>>]_vars

SubscriptionFrames == SelectSeq(sent, LAMBDA m : m.kind = "subscription")

\* C4: on an open connection every subscription of the registry has been
\* announced on it, each once, and the announcements are in registration
\* order (ids are handed out in registration order); the open event itself
\* announces exactly the registry, in its order
C4_ReplayOnConnect ==
    /\ isConnected(Svc) =>
          /\ \A i, j \in 1..Len(SubscriptionFrames) :
                i < j => SubscriptionFrames[i].id < SubscriptionFrames[j].id
          /\ \A i \in 1..Len(subscriptions) :
                \E j \in 1..Len(SubscriptionFrames) :
                   SubscriptionFrames[j].id = subscriptions[i].id
    /\ last.op = "open" =>
          /\ Len(sent) = Len(subscriptions)
          /\ \A i \in 1..Len(sent) : sent[i] = Announce(subscriptions[i])

\* C4's case: two subscriptions registered before the connection opened
C4_Witness ==
    /\ last.op = "open"
    /\ isConnected(Svc)
    /\ Len(subscriptions) = 2
    /\ sent = <<Announce(subscriptions[1]), Announce(subscriptions[2])>>

\* the filter semantics of the specification: every field the filter
\* specifies equals the payload's field, and a payload without it is no match
SpecMatch(payload, filter) ==
    \/ ~filter.present
    \/ \A fld \in Fields :
          filter.f[fld] # Undefined => (payload.obj /\ payload.f[fld] = filter.f[fld])

InvokedIds == {last.invoked[i] : i \in 1..Len(last.invoked)}

\* C5: a routed message reaches the callback of a subscription of its type
\* if and only if the subscription's filter matches by the specified semantics
C5_FilterCorrectness ==
    (last.op = "message" /\ last.wire.shape = "res") =>
        \A i \in 1..Len(subscriptions) :
           subscriptions[i].type = last.wire.type =>
              (subscriptions[i].id \in InvokedIds
                 <=> SpecMatch(last.wire.payload, subscriptions[i].filter))

RoutedIds(subs, msg) ==
    LET m == SelectSeq(subs, LAMBDA x : Routed(x, msg))
    IN  [i \in 1..Len(m) |-> m[i].id]

\* C6: the callbacks of all matching subscriptions are invoked for every
\* routed message, also those after a callback that throws, and no
\* exception leaves the router
C6_CallbackIsolation ==
    (last.op = "message" /\ last.wire.shape = "res") =>
        /\ ~last.threw
        /\ last.invoked = RoutedIds(subscriptions, last.wire)

\* C6's case: the second message of a run reached a throwing callback and,
\* after it, another subscription
C6_Witness ==
    /\ last.op = "message"
    /\ msgSeq = 2
    /\ Len(last.invoked) = 2
    /\ \E i \in 1..Len(subscriptions) :
          subscriptions[i].id = last.invoked[1] /\ subscriptions[i].cb = "throw"

\* C7: the invocations of one subscription's callback are in the order of
\* arrival of the messages, one per message
C7_OrderedDelivery ==
    \A i, j \in 1..Len(delivered) :
       (i < j /\ delivered[i].sub = delivered[j].sub)
          => delivered[i].msg < delivered[j].msg

\* C7's case: one subscription received two messages
C7_Witness ==
    \E i, j \in 1..Len(delivered) :
       i < j /\ delivered[i].sub = delivered[j].sub /\ delivered[j].msg = 2

\* C8: a lost connection ends in the error state only after 10 reconnection
\* attempts were made
C8_ErrorOnlyAfterTenAttempts ==
    [][(last'.op = "close" /\ last'.code # ManualCloseCode
         /\ status = "connected" /\ status' = "error")
          => attempts' = maxReconnectAttempts]_vars

ExpectedDelays == <<1000, 2000, 4000, 8000, 16000, 30000, 30000, 30000, 30000, 30000>>

C10_UnsubscribeUnknownIsNoOp ==
    [][(last'.op = "unsubscribe" /\ ~last'.hit)
          => /\ subscriptions' = subscriptions
             /\ sent' = sent
             /\ tr' = tr
             /\ status' = status
             /\ ws' = ws
             /\ timers' = timers
             /\ delivered' = delivered]_vars

\* C10's case: an unknown id on an open connection with a live subscription
C10_Witness ==
    /\ last.op = "unsubscribe"
    /\ ~last.hit
    /\ isConnected(Svc)
    /\ Len(subscriptions) >= 1

\* C11: a connected client with a subscription and a status listener whose
\* transport closes abnormally recovers without a call of the user: the
\* close leaves it reconnecting with the attempt armed, and the listener is
\* told "reconnecting" (then "connected"), never "disconnected" or "error"
C11_RecoveryAfterAbnormalClose ==
    [][(/\ last'.op = "close"
        /\ last'.code # ManualCloseCode
        /\ status = "connected"
        /\ ~manual
        /\ Len(subscriptions) = 1
        /\ Len(listeners) = 1)
          => /\ status' = "reconnecting"
             /\ ReconnectTimers(timers') # {}
             /\ notified' = <<[listener |-> listeners[1], status |-> "reconnecting"]>>]_vars

\* C12: a connect() whose transport has not opened when the 10 s timer
\* fires has its promise rejected and leaves the state error
C12_ConnectTimeout ==
    [][(last'.op = "timeout" /\ status = "connecting" /\ last'.t = ws)
          => /\ tr'[last'.t].promise = "rejected"
             /\ status' = "error"]_vars

HeartbeatTimers(ts) == {h \in ts : h.kind = "heartbeat"}

\* C13: when disconnect() returns the state is disconnected, the transport
\* the client held is closing or closed, no heartbeat and no reconnection
\* timer is live and the connection record is cleared; called in the state
\* disconnected it changes no transport, no timer, no record and no
\* subscription
C13_DisconnectFromAnyState ==
    [][last'.op = "disconnect"
          => /\ status' = "disconnected"
             /\ ws # NoHandle => tr'[ws].rs \in {"CLOSING", "CLOSED"}
             /\ HeartbeatTimers(timers') = {}
             /\ ReconnectTimers(timers') = {}
             /\ ~connectionState'.set
             /\ status = "disconnected"
                   => /\ tr' = tr
                      /\ timers' = timers
                      /\ connectionState' = connectionState
                      /\ subscriptions' = subscriptions]_vars

\* C14: subscribe() always adds the subscription under the id it returns;
\* in the state connected its announcement is sent in the same step, in
\* every other state nothing is sent then; and a connection that opens
\* announces every subscription of the registry
C14_SubscribeAnnouncement ==
    [][/\ last'.op = "subscribe"
          => /\ Len(subscriptions') = Len(subscriptions) + 1
             /\ subscriptions'[Len(subscriptions')].id = last'.t
             /\ status = "connected"
                   => sent' = Append(sent, Announce(subscriptions'[Len(subscriptions')]))
             /\ status # "connected" => sent' = sent
       /\ (last'.op = "open" /\ status' = "connected")
          => \A i \in 1..Len(subscriptions') :
                \E j \in 1..Len(sent') : sent'[j] = Announce(subscriptions'[i])]_vars

\* C15: a heartbeat timer is live only in the state connected, so a step
\* that leaves connected stops it; and a heartbeat is sent only in the
\* state connected, never after disconnect() or on a transport that is not
\* open
C15_HeartbeatOnlyWhileConnected ==
    [][/\ HeartbeatTimers(timers') # {} => status' = "connected"
       /\ (last'.op = "heartbeat" /\ sent' # sent)
          => /\ status = "connected"
             /\ ~manual
             /\ isConnected(Svc)]_vars

\* C16: the state error is left only by a call of connect() or
\* disconnect(), and no reconnection timer is pending in the state error
C16_ErrorIsTerminal ==
    [][/\ (status = "error" /\ status' # "error")
          => last'.op \in {"connect", "disconnect"}
       /\ status' = "error" => ReconnectTimers(timers') = {}]_vars

ListenerSet(ls) == {ls[i] : i \in 1..Len(ls)}

HeardBy(l, ns) == SelectSeq(ns, LAMBDA n : n.listener = l)

\* C17: a step that changes the state invokes every registered status
\* listener in that step, the last time with the new state, and only
\* listeners registered at that time are ever invoked
C17_ListenersToldEveryChange ==
    [][/\ status' # status
          => \A l \in ListenerSet(listeners) :
                /\ HeardBy(l, notified') # <<>>
                /\ HeardBy(l, notified')[Len(HeardBy(l, notified'))].status = status'
       /\ \A j \in 1..Len(notified') : notified'[j].listener \in ListenerSet(listeners)]_vars

\* C17's case: an abnormal close changed the state twice in one step and the
\* registered listener heard both changes
C17_Witness ==
    /\ last.op = "close"
    /\ last.code = AbnormalCloseCode
    /\ status = "error"
    /\ Len(listeners) = 1
    /\ notified = <<[listener |-> listeners[1], status |-> "disconnected"],
                    [listener |-> listeners[1], status |-> "error"]>>

\* C18: the connection record getConnectionState() returns is non-null
\* exactly when the state is connected or reconnecting
C18_ConnectionMetaInvariant ==
    connectionState.set <=> status \in {"connected", "reconnecting"}

\* C19: the registry is changed by no operation but subscribe(), which
\* adds one entry under the id it returns, and unsubscribe(), which removes
\* the entry of its id; and no id has two entries
C19_RegistrySurvivesLifecycle ==
    [][/\ last'.op \notin {"subscribe", "unsubscribe"} => subscriptions' = subscriptions
       /\ last'.op = "subscribe"
          => /\ Len(subscriptions') = Len(subscriptions) + 1
             /\ SubSeq(subscriptions', 1, Len(subscriptions)) = subscriptions
             /\ subscriptions'[Len(subscriptions')].id = last'.t
       /\ last'.op = "unsubscribe"
          => subscriptions' = SelectSeq(subscriptions, LAMBDA x : x.id # last'.t)
       /\ \A i, j \in 1..Len(subscriptions') :
             subscriptions'[i].id = subscriptions'[j].id => i = j]_vars

\* C19's case: a subscription made on the first connection is in the
\* registry, and announced, when the second connection has opened
C19_Witness ==
    /\ last.op = "open"
    /\ last.t = 2
    /\ tr[1].opened
    /\ Len(subscriptions) = 1
    /\ sent = <<Announce(subscriptions[1])>>

\* C20: subscribe() never returns an id it returned before, so it never
\* replaces an entry of the registry: the registry it leaves is the one it
\* found plus one entry
C20_SubscriptionIdsUnique ==
    [][last'.op = "subscribe"
          => /\ last'.t \notin returned
             /\ Len(subscriptions') = Len(subscriptions) + 1
             /\ SubSeq(subscriptions', 1, Len(subscriptions)) = subscriptions]_vars

\* the edges of the specified transition table, with the handler that may
\* take each of them
TableEdge(from, to, op) ==
    \/ from \in {"disconnected", "error"} /\ to = "connecting" /\ op = "connect"
    \/ from = "connecting" /\ to = "connected" /\ op = "open"
    \/ from = "connecting" /\ to = "error" /\ op \in {"error", "close", "timeout"}
    \/ from = "connected" /\ to = "reconnecting" /\ op = "close"
    \/ from = "reconnecting" /\ to = "connected" /\ op = "open"
    \/ from = "reconnecting" /\ to = "error" /\ op \in {"error", "close", "timeout", "reconnect"}
    \/ to = "disconnected" /\ op = "disconnect"

\* C21: every step that changes the state takes an edge of the transition
\* table; no transport event takes the state from connected to disconnected
\* or from disconnected to error
C21_TransitionTable ==
    [][status' # status => TableEdge(status, status', last'.op)]_vars

\* C22: an error event of the transport of a pending connect() rejects the
\* promise and leaves the state error, with no reconnection timer armed
C22_ErrorWhileConnecting ==
    [][(/\ last'.op = "error"
        /\ status = "connecting"
        /\ last'.t = ws
        /\ tr[ws].promise = "pending"
        /\ ~tr[ws].byTimer)
          => /\ tr'[ws].promise = "rejected"
             /\ status' = "error"
             /\ ReconnectTimers(timers') = {}]_vars

\* C23: whenever the current transport is open and its open event has been
\* handled, the state is connected, the connection record is set and the
\* heartbeat interval the service references is live, whatever events of
\* earlier transports arrived in between
C23_SupersededTransportIsInert ==
    (ws # NoHandle /\ tr[ws].rs = "OPEN" /\ tr[ws].opened)
       => /\ status = "connected"
          /\ connectionState.set
          /\ \E h \in HeartbeatTimers(timers) : h.id = heartbeatTimer

C25_DisconnectedUntilConnect ==
    manual => status = "disconnected"

\* C26: the transport of a connect() that timed out is abandoned: its late
\* open event does not make the state connected, starts no heartbeat,
\* announces nothing and notifies nobody, and a connect() called after the
\* timeout creates a new transport
C26_TimedOutTransportAbandoned ==
    [][/\ (last'.op = "open" /\ tr[last'.t].timeout = "fired")
          => /\ status' # "connected"
             /\ timers' = timers
             /\ sent' = sent
             /\ notified' = <<>>
       /\ (last'.op = "connect" /\ ws # NoHandle /\ tr[ws].timeout = "fired")
          => /\ Len(tr') = Len(tr) + 1
             /\ ws' = Len(tr')]_vars

\* C27: on the current connection no subscription id is announced twice,
\* also not the id of a subscription a status listener registers while it is
\* told "connected"
C27_AnnouncedAtMostOnce ==
    \A i, j \in 1..Len(SubscriptionFrames) :
       SubscriptionFrames[i].id = SubscriptionFrames[j].id => i = j

\* C28: the callbacks invoked for a message belong to subscriptions that were
\* in the registry when it arrived, and a subscription that a callback
\* removed during the pass was invoked only if it is the one that removed
\* itself
C28_RoutingSnapshot ==
    [][last'.op = "message"
          => \A k \in 1..Len(last'.invoked) :
                /\ \E i \in 1..Len(subscriptions) : subscriptions[i].id = last'.invoked[k]
                /\ (\A i \in 1..Len(subscriptions') : subscriptions'[i].id # last'.invoked[k])
                      => \E i \in 1..Len(subscriptions) :
                            /\ subscriptions[i].id = last'.invoked[k]
                            /\ subscriptions[i].cb = "unsubscribe"]_vars

\* C29: at most one heartbeat timer and at most one reconnection timer are
\* live, and every live timer is the one the service's handle refers to
C29_NoTimerLeak ==
    /\ Cardinality(HeartbeatTimers(timers)) <= 1
    /\ Cardinality(ReconnectTimers(timers)) <= 1
    /\ \A h \in HeartbeatTimers(timers) : h.id = heartbeatTimer
    /\ \A h \in ReconnectTimers(timers) : h.id = reconnectTimer

\* C30: every notification of a status listener reports a change of the
\* state: the first one of a step differs from the state before the step,
\* and each further one from the one before it
C30_NoRepeatedNotification ==
    [][\A l \in ListenerSet(listeners) :
          LET h == HeardBy(l, notified')
          IN  h # <<>>
                 => /\ h[1].status # status
                    /\ \A k \in 1..(Len(h) - 1) : h[k].status # h[k + 1].status]_vars

====
